---- MODULE Spec2Model ----
(***************************************************************************)
(* A model of iterm-mcp: the bridge between a caller and the sessions of a *)
(* running iTerm2.  Every operation builds an AppleScript, wraps it in a   *)
(* shell command, runs it as a subprocess and decodes what it printed.     *)
(*                                                                         *)
(* Text is a sequence of characters.  A character is a one-character       *)
(* string; a piece of fixed script text that holds no quote, backslash or  *)
(* separator is kept as one element (a chunk), and so are the two wire     *)
(* separators and the few non-ASCII characters the model needs.            *)
(***************************************************************************)
EXTENDS Integers, Sequences, FiniteSets, TLC

\* ------------------------------------------------------------------ bounds

\* Longest caller-supplied session identifier or profile name.
MaxIdLen == 3
\* Most characters a session holds unread.
MaxWritten == 1
\* Most tabs of a window before a tab is created.
MaxTabs == 2
\* Longest terminal buffer and largest line count of the reading checks.
MaxBufLen == 4
MaxLines == 3
\* Most lines of the contents of a listed session.
MaxPreviewLines == 6
\* Most texts between separators in what a creation prints.
MaxParts == 3
\* Most fields of a block in what the listing prints.
MaxFields == 11

\* ------------------------------------------------------------- characters

DQ == "\""
BSL == "\\"
SQ == "'"
NL == "\n"
SP == " "
\* U+0131 LATIN SMALL LETTER DOTLESS I and U+017F LATIN SMALL LETTER LONG S:
\* the two non-ASCII characters whose upper case is an ASCII letter.
DotlessI == "U+0131"
LongS == "U+017F"
\* U+00DF LATIN SMALL LETTER SHARP S: its upper case is the two letters SS.
SharpS == "U+00DF"

UpperLetters ==
  <<"A","B","C","D","E","F","G","H","I","J","K","L","M",
    "N","O","P","Q","R","S","T","U","V","W","X","Y","Z">>

LowerLetters ==
  <<"a","b","c","d","e","f","g","h","i","j","k","l","m",
    "n","o","p","q","r","s","t","u","v","w","x","y","z">>

Digits == <<"0","1","2","3","4","5","6","7","8","9">>

\* The position of c in the sequence s, 0 when absent.
IndexOf(s, c) ==
  IF \E i \in 1..Len(s) : s[i] = c
    THEN CHOOSE i \in 1..Len(s) : s[i] = c
    ELSE 0

RECURSIVE Flatten(_)
\* The concatenation of a sequence of texts.
Flatten(ss) ==
  IF ss = <<>> THEN <<>> ELSE Head(ss) \o Flatten(Tail(ss))

\* String.prototype.replace with a global one-character pattern: every
\* occurrence of c becomes the text rep.
ReplaceAll(s, c, rep) ==
  Flatten([i \in 1..Len(s) |-> IF s[i] = c THEN rep ELSE <<s[i]>>])

\* String.prototype.toUpperCase on one character, by the Unicode upper-case
\* mapping: it can lengthen the text.
UpperOfChar(c) ==
  IF IndexOf(LowerLetters, c) > 0 THEN <<UpperLetters[IndexOf(LowerLetters, c)]>>
  ELSE IF c = DotlessI THEN <<"I">>
  ELSE IF c = LongS THEN <<"S">>
  ELSE IF c = SharpS THEN <<"S", "S">>
  ELSE <<c>>

toUpperCase(s) == Flatten([i \in 1..Len(s) |-> UpperOfChar(s[i])])

\* White space as String.prototype.trim sees it.
IsSpace(c) == c \in {SP, NL, "\t", "\r"}

RECURSIVE TrimStart(_)
TrimStart(s) ==
  IF s # <<>> /\ IsSpace(Head(s)) THEN TrimStart(Tail(s)) ELSE s

RECURSIVE TrimEnd(_)
TrimEnd(s) ==
  IF s # <<>> /\ IsSpace(s[Len(s)]) THEN TrimEnd(SubSeq(s, 1, Len(s) - 1)) ELSE s

trim(s) == TrimEnd(TrimStart(s))

RECURSIVE IntToText(_)
\* A non-negative integer interpolated into a template literal: its decimal
\* digits.
IntToText(n) ==
  IF n < 10 THEN <<Digits[n + 1]>>
  ELSE IntToText(n \div 10) \o <<Digits[(n % 10) + 1]>>

IsDigit(c) == IndexOf(Digits, c) > 0

RECURSIVE DigitsValue(_)
\* The value of a non-empty text of decimal digits.
DigitsValue(s) ==
  IF Len(s) = 1 THEN IndexOf(Digits, s[1]) - 1
  ELSE 10 * DigitsValue(SubSeq(s, 1, Len(s) - 1)) + (IndexOf(Digits, s[Len(s)]) - 1)

\* ---------------------------------------------------------------- escaping

\* The two replacements in the other order.
escapeQuotesFirst(str) ==
  ReplaceAll(ReplaceAll(str, DQ, <<BSL, DQ>>), BSL, <<BSL, BSL>>)

escapeForAppleScriptString(str) ==
  ReplaceAll(ReplaceAll(str, BSL, <<BSL, BSL>>), DQ, <<BSL, DQ>>)

\* The single quote escaped by a backslash inside the quotes.
escapeQuoteByBackslash(str) ==
  ReplaceAll(str, SQ, <<BSL, SQ>>)

escapeForShellSingleQuote(str) ==
  ReplaceAll(str, SQ, <<SQ, BSL, SQ, SQ>>)

buildOsascriptCommand(script) ==
  <<"osascript -e ", SQ>> \o escapeForShellSingleQuote(script) \o <<SQ>>

\* ------------------------------------------------------------- key mapping

SPECIAL_KEYS ==
  (<<"E","N","T","E","R">> :> 13) @@
  (<<"R","E","T","U","R","N">> :> 13) @@
  (<<"C","R">> :> 13) @@
  (<<"L","F">> :> 10) @@
  (<<"N","E","W","L","I","N","E">> :> 10) @@
  (<<"E","S","C","A","P","E">> :> 27) @@
  (<<"E","S","C">> :> 27) @@
  (<<"T","A","B">> :> 9) @@
  (<<"B","A","C","K","S","P","A","C","E">> :> 127) @@
  (<<"B","S">> :> 8) @@
  (<<"D","E","L","E","T","E">> :> 127) @@
  (<<"D","E","L">> :> 127) @@
  (<<"]">> :> 29) @@
  (<<"S","P","A","C","E">> :> 32)

\* /^[A-Z]$/.test(s)
IsSingleUpperLetter(s) == Len(s) = 1 /\ IndexOf(UpperLetters, s[1]) > 0

\* The table of special keys looked up under the letter as it was typed.
ResolveKeyAsTyped(letter) ==
  LET upperLetter == toUpperCase(letter) IN
  IF letter \in DOMAIN SPECIAL_KEYS
    THEN [ok |-> TRUE, code |-> SPECIAL_KEYS[letter]]
  ELSE IF ~IsSingleUpperLetter(upperLetter)
    THEN [ok |-> FALSE, code |-> 0]
  ELSE [ok |-> TRUE, code |-> IndexOf(UpperLetters, upperLetter[1])]

\* The key resolution of send: the resolved control code, or the
\* 'Invalid key' error (ok = FALSE).
ResolveKey(letter) ==
  LET upperLetter == toUpperCase(letter) IN
  IF upperLetter \in DOMAIN SPECIAL_KEYS
    THEN [ok |-> TRUE, code |-> SPECIAL_KEYS[upperLetter]]
  ELSE IF letter = <<"]">>
    THEN [ok |-> TRUE, code |-> SPECIAL_KEYS[<<"]">>]]
  ELSE IF ~IsSingleUpperLetter(upperLetter)
    THEN [ok |-> FALSE, code |-> 0]
  ELSE [ok |-> TRUE, code |-> IndexOf(UpperLetters, upperLetter[1])]

\* ------------------------------------------------------- script building

\* The application name inside the first literal of every script.
AppName == <<"iTerm2">>
\* The separator of the window and tab creation results.
SEP == "<<:SEP:>>"
\* The separators of the session listing.
FIELD_SEP == "<<:FIELD:>>"
RECORD_SEP == "<<:RECORD:>>"

\* An optional string that is absent (undefined): a text no caller can supply.
Undefined == <<"undefined">>
\* An optional number that is absent (undefined).
UndefinedNumber == -1

\* JavaScript truthiness of an optional string: undefined and "" are falsy.
Truthy(s) == s # Undefined /\ s # <<>>

\* The fixed text of the scripts, cut at the quotes and the interpolations.
K_TELL == "tell application "
K_FIND == " repeat with w in windows repeat with t in tabs of w repeat with s in sessions of t if unique id of s is "
K_WRITE == " then tell s to write text (ASCII character "
K_WRITE_END == ") newline NO return end if end repeat end repeat end repeat error "
K_ERR_FOUND == "Session not found: "
K_END == " end tell"
K_FRONT_WRITE == " tell front window tell current session of current tab write text (ASCII character "
K_FRONT_WRITE_END == ") newline NO end tell end tell end tell"
K_READ == " then return contents of s end if end repeat end repeat end repeat error "
K_FRONT_READ == " tell front window tell current session of current tab set allContent to contents return allContent end tell end tell end tell"

\* The script of a send that addresses the foreground whatever the target.
SendScriptToFront(sessionId, controlCode) ==
  <<K_TELL, DQ>> \o AppName \o <<DQ, K_FRONT_WRITE>> \o IntToText(controlCode)
    \o <<K_FRONT_WRITE_END>>

\* SendControlCharacter.send, the script for a session identifier and a
\* resolved control code.
SendScript(sessionId, controlCode) ==
  IF Truthy(sessionId)
    THEN LET escapedSessionId == escapeForAppleScriptString(sessionId) IN
         <<K_TELL, DQ>> \o AppName \o <<DQ, K_FIND, DQ>> \o escapedSessionId
           \o <<DQ, K_WRITE>> \o IntToText(controlCode)
           \o <<K_WRITE_END, DQ, K_ERR_FOUND>> \o escapedSessionId \o <<DQ, K_END>>
    ELSE <<K_TELL, DQ>> \o AppName \o <<DQ, K_FRONT_WRITE>>
           \o IntToText(controlCode) \o <<K_FRONT_WRITE_END>>

\* TtyOutputReader.retrieveBuffer, the script (the variant that escapes).
RetrieveScript(sessionId) ==
  IF Truthy(sessionId)
    THEN LET escapedSessionId == escapeForAppleScriptString(sessionId) IN
         <<K_TELL, DQ>> \o AppName \o <<DQ, K_FIND, DQ>> \o escapedSessionId
           \o <<DQ, K_READ, DQ, K_ERR_FOUND>> \o escapedSessionId \o <<DQ, K_END>>
    ELSE <<K_TELL, DQ>> \o AppName \o <<DQ, K_FRONT_READ>>

\* TtyOutputReader.retrieveBuffer of the older variant: the identifier is
\* interpolated as it is.
RetrieveScriptOld(sessionId) ==
  IF Truthy(sessionId)
    THEN <<K_TELL, DQ>> \o AppName \o <<DQ, K_FIND, DQ>> \o sessionId
           \o <<DQ, K_READ, DQ, K_ERR_FOUND>> \o sessionId \o <<DQ, K_END>>
    ELSE <<K_TELL, DQ>> \o AppName \o <<DQ, K_FRONT_READ>>

\* The older variant runs `osascript -e '${ascript}'`: no shell escaping.
RetrieveCommandOld(ascript) == <<"osascript -e ", SQ>> \o ascript \o <<SQ>>

K_CW_CREATE == " set newWindow to (create window "
K_PROFILE == "with profile "
K_DEFAULT_PROFILE == "with default profile"
K_CW_REST == ") set newSession to current session of current tab of newWindow set sessionId to unique id of newSession set windowId to id of newWindow return sessionId & "
K_CW_END == " & windowId end tell"
K_CT_FIND == " set targetWindow to missing value repeat with w in windows if id of w is "
K_CT_FOUND == " then set targetWindow to w exit repeat end if end repeat if targetWindow is missing value then error "
K_ERR_WINDOW == "Window not found with ID: "
K_CT_TARGET == " end if tell targetWindow set newTab to (create tab "
K_CT_CURRENT == " tell current window set newTab to (create tab "
K_CT_INDEX == ") set newSession to current session of newTab set sessionId to unique id of newSession set tabIdx to 0 set tabCount to count of tabs repeat with i from 1 to tabCount if item i of tabs is newTab then set tabIdx to i - 1 exit repeat end if end repeat return sessionId & "
K_CT_INDEX_CUR == ") set newSession to current session of newTab set sessionId to unique id of newSession set windowId to id of current window set tabIdx to 0 set tabCount to count of tabs repeat with i from 1 to tabCount if item i of tabs is newTab then set tabIdx to i - 1 exit repeat end if end repeat return sessionId & "
K_AMP == " & "
K_CT_WINDOW == " & windowId & "
K_CT_END == " & tabIdx end tell end tell"

\* The profile clause of createWindow and createTab: the profile name is
\* interpolated as it is.
ProfileClause(profile) ==
  IF Truthy(profile) THEN <<K_PROFILE, DQ>> \o profile \o <<DQ>>
                     ELSE <<K_DEFAULT_PROFILE>>

\* WindowTabManager.createWindow, the script.
CreateWindowScript(profile) ==
  <<K_TELL, DQ>> \o AppName \o <<DQ, K_CW_CREATE>> \o ProfileClause(profile)
    \o <<K_CW_REST, DQ, SEP, DQ, K_CW_END>>

\* WindowTabManager.createTab, the script.
CreateTabScript(windowId, profile) ==
  IF windowId # UndefinedNumber
    THEN <<K_TELL, DQ>> \o AppName \o <<DQ, K_CT_FIND>> \o IntToText(windowId)
           \o <<K_CT_FOUND, DQ, K_ERR_WINDOW>> \o IntToText(windowId)
           \o <<DQ, K_CT_TARGET>> \o ProfileClause(profile)
           \o <<K_CT_INDEX, DQ, SEP, DQ, K_AMP>> \o IntToText(windowId)
           \o <<K_AMP, DQ, SEP, DQ, K_CT_END>>
    ELSE <<K_TELL, DQ>> \o AppName \o <<DQ, K_CT_CURRENT>> \o ProfileClause(profile)
           \o <<K_CT_INDEX_CUR, DQ, SEP, DQ, K_CT_WINDOW, DQ, SEP, DQ, K_CT_END>>

\* ------------------------------------------- the shell and the script host

RECURSIVE ShellWord(_, _, _, _)
\* How /bin/sh reads the text after `osascript -e ` as one word: inside
\* single quotes every character is literal; outside them a backslash makes
\* the next character literal and an ordinary character stands for itself.
\* ok is FALSE when the text is not one word (an unquoted double quote or
\* blank, a dangling backslash, an unclosed quote).
ShellWord(s, i, quoted, acc) ==
  IF i > Len(s) THEN [ok |-> ~quoted, word |-> acc]
  ELSE IF quoted
    THEN IF s[i] = SQ THEN ShellWord(s, i + 1, FALSE, acc)
                      ELSE ShellWord(s, i + 1, TRUE, Append(acc, s[i]))
  ELSE IF s[i] = SQ THEN ShellWord(s, i + 1, TRUE, acc)
  ELSE IF s[i] = BSL
    THEN IF i < Len(s) THEN ShellWord(s, i + 2, FALSE, Append(acc, s[i + 1]))
                       ELSE [ok |-> FALSE, word |-> acc]
  ELSE IF Len(s[i]) = 1 /\ s[i] \notin {DQ, SP, NL}
    THEN ShellWord(s, i + 1, FALSE, Append(acc, s[i]))
  ELSE [ok |-> FALSE, word |-> acc]

\* The script a command line hands to osascript.
ShellScript(command) ==
  IF Len(command) >= 1 /\ command[1] = "osascript -e "
    THEN ShellWord(Tail(command), 1, FALSE, <<>>)
    ELSE [ok |-> FALSE, word |-> <<>>]

RECURSIVE LexFrom(_, _, _, _, _)
\* The tokens of an AppleScript text: a character of code, or a string
\* literal with its interpreted value.  In a literal a backslash takes the
\* next character, which must be a quote or a backslash.
LexFrom(s, i, inStr, cur, acc) ==
  IF i > Len(s) THEN [ok |-> ~inStr, toks |-> acc]
  ELSE IF ~inStr
    THEN IF s[i] = DQ THEN LexFrom(s, i + 1, TRUE, <<>>, acc)
         ELSE LexFrom(s, i + 1, FALSE, <<>>, Append(acc, [k |-> "code", v |-> <<s[i]>>]))
  ELSE IF s[i] = DQ
    THEN LexFrom(s, i + 1, FALSE, <<>>, Append(acc, [k |-> "str", v |-> cur]))
  ELSE IF s[i] = BSL
    THEN IF i < Len(s) /\ s[i + 1] \in {DQ, BSL}
           THEN LexFrom(s, i + 2, TRUE, Append(cur, s[i + 1]), acc)
           ELSE [ok |-> FALSE, toks |-> acc]
  ELSE LexFrom(s, i + 1, TRUE, Append(cur, s[i]), acc)

Lex(script) == LexFrom(script, 1, FALSE, <<>>, <<>>)

HOLE == "<str>"
NUM == "<num>"

RECURSIVE CodeFrom(_, _)
\* The code of a token sequence: its code characters, each literal replaced
\* by HOLE and each run of digits by NUM.
CodeFrom(toks, i) ==
  IF i > Len(toks) THEN <<>>
  ELSE IF toks[i].k = "str" THEN <<HOLE>> \o CodeFrom(toks, i + 1)
  ELSE IF IsDigit(toks[i].v[1])
    THEN IF i > 1 /\ toks[i - 1].k = "code" /\ IsDigit(toks[i - 1].v[1])
           THEN CodeFrom(toks, i + 1)
           ELSE <<NUM>> \o CodeFrom(toks, i + 1)
  ELSE toks[i].v \o CodeFrom(toks, i + 1)

\* The values of the literals of a token sequence, in order.
StrsOf(toks) ==
  LET lits == SelectSeq(toks, LAMBDA t : t.k = "str")
  IN [i \in 1..Len(lits) |-> lits[i].v]

RECURSIVE NumsFrom(_, _, _)
\* The numbers of a token sequence, in order.
NumsFrom(toks, i, cur) ==
  IF i > Len(toks) THEN IF cur = <<>> THEN <<>> ELSE <<DigitsValue(cur)>>
  ELSE IF toks[i].k = "code" /\ IsDigit(toks[i].v[1])
    THEN NumsFrom(toks, i + 1, Append(cur, toks[i].v[1]))
  ELSE (IF cur = <<>> THEN <<>> ELSE <<DigitsValue(cur)>>) \o NumsFrom(toks, i + 1, <<>>)

K_LS_OUTPUT == " set output to "
K_LS_CURRENT == " set currentSessionId to "
K_LS_FIELD == " set fieldSep to "
K_LS_RECORD == " set recordSep to "
K_LS_WALK == " try set currentSessionId to unique id of current session of current window end try set windowList to windows repeat with wIndex from 1 to count of windowList set w to item wIndex of windowList set windowId to id of w set windowName to name of w set tabList to tabs of w repeat with tIndex from 1 to count of tabList set t to item tIndex of tabList set sessionList to sessions of t repeat with sIndex from 1 to count of sessionList set s to item sIndex of sessionList set sessionId to unique id of s set sessionName to name of s set sessionTty to tty of s set profileName to profile name of s set isProc to is processing of s set sessionContents to contents of s set previewText to "
K_LS_EMIT == " if length of sessionContents > 0 then if length of sessionContents > 500 then set previewText to text ((length of sessionContents) - 499) thru (length of sessionContents) of sessionContents else set previewText to sessionContents end if end if set isCurr to (sessionId is equal to currentSessionId) set output to output & sessionId & fieldSep & sessionName & fieldSep & windowName & fieldSep & windowId & fieldSep & (tIndex - 1) & fieldSep & sessionTty & fieldSep & profileName & fieldSep & isCurr & fieldSep & isProc & fieldSep & previewText & recordSep end repeat end repeat end repeat return output end tell"

\* SessionManager.listSessions, the script: no caller-supplied text.
ListScript ==
  <<K_TELL, DQ>> \o AppName \o <<DQ, K_LS_OUTPUT, DQ, DQ, K_LS_CURRENT, DQ, DQ,
    K_LS_FIELD, DQ, FIELD_SEP, DQ, K_LS_RECORD, DQ, RECORD_SEP, DQ,
    K_LS_WALK, DQ, DQ, K_LS_EMIT>>

\* SessionManager.listSessions, the command line: the shell escaping is
\* written out in place.
ListCommand(script) ==
  <<"osascript -e ", SQ>> \o ReplaceAll(script, SQ, <<SQ, BSL, SQ, SQ>>) \o <<SQ>>

\* What parseInt gives for a text that starts with no digit.
NaN == -2

\* String.prototype.split on a one-element separator.
Split(s, sep) ==
  LET cuts == <<0>> \o SelectSeq([i \in 1..Len(s) |-> IF s[i] = sep THEN i ELSE 0],
                                 LAMBDA i : i > 0) \o <<Len(s) + 1>>
  IN [j \in 1..(Len(cuts) - 1) |-> SubSeq(s, cuts[j] + 1, cuts[j + 1] - 1)]

\* Array.prototype.join with the separator text sep.
Join(parts, sep) ==
  Flatten([i \in 1..Len(parts) |-> IF i = 1 THEN parts[i] ELSE sep \o parts[i]])

RECURSIVE DigitPrefix(_)
DigitPrefix(s) ==
  IF s # <<>> /\ IsDigit(Head(s)) THEN <<Head(s)>> \o DigitPrefix(Tail(s)) ELSE <<>>

\* parseInt(s, 10) of a text without sign: the value of its leading digits
\* after leading white space, NaN when there is none.
parseInt(s) ==
  LET d == DigitPrefix(TrimStart(s))
  IN IF d = <<>> THEN NaN ELSE DigitsValue(d)

\* The code shapes of the scripts the host is sent.
WRITE_TARGET == <<K_TELL, HOLE, K_FIND, HOLE, K_WRITE, NUM, K_WRITE_END, HOLE, K_END>>
WRITE_FRONT == <<K_TELL, HOLE, K_FRONT_WRITE, NUM, K_FRONT_WRITE_END>>
READ_TARGET == <<K_TELL, HOLE, K_FIND, HOLE, K_READ, HOLE, K_END>>
READ_FRONT == <<K_TELL, HOLE, K_FRONT_READ>>
WINDOW_PROFILE == <<K_TELL, HOLE, K_CW_CREATE, K_PROFILE, HOLE, K_CW_REST, HOLE, K_CW_END>>
WINDOW_DEFAULT == <<K_TELL, HOLE, K_CW_CREATE, K_DEFAULT_PROFILE, K_CW_REST, HOLE, K_CW_END>>
TAB_TARGET_PROFILE ==
  <<K_TELL, HOLE, K_CT_FIND, NUM, K_CT_FOUND, HOLE, K_CT_TARGET, K_PROFILE, HOLE,
    K_CT_INDEX, HOLE, K_AMP, NUM, K_AMP, HOLE, K_CT_END>>
TAB_TARGET_DEFAULT ==
  <<K_TELL, HOLE, K_CT_FIND, NUM, K_CT_FOUND, HOLE, K_CT_TARGET, K_DEFAULT_PROFILE,
    K_CT_INDEX, HOLE, K_AMP, NUM, K_AMP, HOLE, K_CT_END>>
TAB_CURRENT_PROFILE ==
  <<K_TELL, HOLE, K_CT_CURRENT, K_PROFILE, HOLE, K_CT_INDEX_CUR, HOLE, K_CT_WINDOW,
    HOLE, K_CT_END>>
TAB_CURRENT_DEFAULT ==
  <<K_TELL, HOLE, K_CT_CURRENT, K_DEFAULT_PROFILE, K_CT_INDEX_CUR, HOLE, K_CT_WINDOW,
    HOLE, K_CT_END>>

LIST_ALL ==
  <<K_TELL, HOLE, K_LS_OUTPUT, HOLE, K_LS_CURRENT, HOLE, K_LS_FIELD, HOLE,
    K_LS_RECORD, HOLE, K_LS_WALK, HOLE, K_LS_EMIT>>

\* A program the host does not run.
NoProgram ==
  [kind |-> "none", target |-> Undefined, code |-> 0, message |-> <<>>,
   profile |-> Undefined, window |-> UndefinedNumber, echo |-> UndefinedNumber,
   seps |-> <<>>]

\* What osascript makes of a command line: the program of the script it is
\* handed, read off the script's tokens; kind "none" when the command line
\* is not one script, the script does not compile or it addresses another
\* application.
Compile(command) ==
  LET sh == ShellScript(command)
      lx == IF sh.ok THEN Lex(sh.word) ELSE [ok |-> FALSE, toks |-> <<>>]
      code == CodeFrom(lx.toks, 1)
      strs == StrsOf(lx.toks)
      nums == NumsFrom(lx.toks, 1, <<>>)
  IN IF ~lx.ok \/ strs = <<>> THEN NoProgram
     ELSE IF strs[1] # AppName THEN NoProgram
     ELSE IF code = WRITE_TARGET
       THEN [NoProgram EXCEPT !.kind = "write", !.target = strs[2],
                              !.code = nums[1], !.message = strs[3]]
     ELSE IF code = WRITE_FRONT
       THEN [NoProgram EXCEPT !.kind = "write", !.code = nums[1]]
     ELSE IF code = READ_TARGET
       THEN [NoProgram EXCEPT !.kind = "read", !.target = strs[2], !.message = strs[3]]
     ELSE IF code = READ_FRONT
       THEN [NoProgram EXCEPT !.kind = "read"]
     ELSE IF code = WINDOW_PROFILE
       THEN [NoProgram EXCEPT !.kind = "window", !.profile = strs[2],
                              !.seps = <<strs[3]>>]
     ELSE IF code = WINDOW_DEFAULT
       THEN [NoProgram EXCEPT !.kind = "window", !.seps = <<strs[2]>>]
     ELSE IF code = TAB_TARGET_PROFILE
       THEN [NoProgram EXCEPT !.kind = "tab", !.window = nums[1], !.message = strs[2],
                              !.profile = strs[3], !.echo = nums[2],
                              !.seps = <<strs[4], strs[5]>>]
     ELSE IF code = TAB_TARGET_DEFAULT
       THEN [NoProgram EXCEPT !.kind = "tab", !.window = nums[1], !.message = strs[2],
                              !.echo = nums[2], !.seps = <<strs[3], strs[4]>>]
     ELSE IF code = TAB_CURRENT_PROFILE
       THEN [NoProgram EXCEPT !.kind = "tab", !.profile = strs[2],
                              !.seps = <<strs[3], strs[4]>>]
     ELSE IF code = TAB_CURRENT_DEFAULT
       THEN [NoProgram EXCEPT !.kind = "tab", !.seps = <<strs[2], strs[3]>>]
     ELSE IF code = LIST_ALL
       THEN [NoProgram EXCEPT !.kind = "list", !.seps = <<strs[4], strs[5]>>]
     ELSE NoProgram

\* ------------------------------------------------------------- the host

\* The session tree of the running iTerm2 and what the bridge keeps of its
\* last operation.
VARIABLES
  windows,   \* the windows, front first: [id, tabs, cur]; a tab is the
             \* sequence of the unique ids of its sessions, the current first
  sess,      \* unique id -> [name, tty, profile, proc, contents, written]
  nextId,    \* the next window or session number the host hands out
  result,    \* the last operation of the bridge, its arguments and outcome
  ascript,   \* the script the last operation built, <<>> when it built none
  ran,       \* the command lines the last operation ran, in order
  known      \* the session ids the caller has learnt from listings

vars == <<windows, sess, nextId, result, ascript, ran, known>>
host == <<windows, sess, nextId>>

\* The profiles the host knows; the first is its default.
DefaultProfile == <<"D">>
HostProfiles == {DefaultProfile, <<"s">>, <<BSL>>}

\* The last 500 characters of a session's contents go into its preview.
PreviewChars == 500

\* The unique id the host gives its n-th object when it is a session.
SessionIdOf(n) == <<"s">> \o IntToText(n)

\* A new session under a profile.
NewSession(profile) ==
  [name |-> <<"z","s","h">>, tty |-> <<"/","t","t","y">>, profile |-> profile,
   proc |-> FALSE, contents |-> <<>>, written |-> <<>>]

\* The unique ids of the sessions of a window list, in the order the scripts
\* walk them: windows, tabs of each, sessions of each.
SessionsOfWindow(w) == Flatten(w.tabs)
SessionsOf(ws) == Flatten([i \in 1..Len(ws) |-> SessionsOfWindow(ws[i])])

\* The current session of the current tab of a window.
CurrentSession(w) == Head(w.tabs[w.cur])

\* A boolean coerced to text.
BoolText(b) == IF b THEN <<"true">> ELSE <<"false">>

\* The text (length - 499) thru length of the contents, when longer than 500.
PreviewText(contents) ==
  IF Len(contents) > PreviewChars
    THEN SubSeq(contents, Len(contents) - (PreviewChars - 1), Len(contents))
    ELSE contents

\* The output of the listing script on a session tree: one record per
\* session, ten fields in a fixed order, with the separators the script set.
EncodeSessions(ws, ss, fieldSep, recordSep) ==
  LET currentSessionId == IF ws = <<>> THEN <<>> ELSE CurrentSession(ws[1])
      OneSession(w, tIndex, sessionId) ==
        sessionId \o fieldSep \o ss[sessionId].name \o fieldSep
          \o ss[CurrentSession(w)].name \o fieldSep \o IntToText(w.id) \o fieldSep
          \o IntToText(tIndex - 1) \o fieldSep \o ss[sessionId].tty \o fieldSep
          \o ss[sessionId].profile \o fieldSep
          \o BoolText(sessionId = currentSessionId) \o fieldSep
          \o BoolText(ss[sessionId].proc) \o fieldSep
          \o PreviewText(ss[sessionId].contents) \o recordSep
      OneTab(w, tIndex) ==
        Flatten([k \in 1..Len(w.tabs[tIndex]) |-> OneSession(w, tIndex, w.tabs[tIndex][k])])
      OneWindow(w) == Flatten([t \in 1..Len(w.tabs) |-> OneTab(w, t)])
  IN Flatten([i \in 1..Len(ws) |-> OneWindow(ws[i])])

InsertAt(seq, pos, e) ==
  SubSeq(seq, 1, pos - 1) \o <<e>> \o SubSeq(seq, pos, Len(seq))

RemoveAt(seq, pos) ==
  SubSeq(seq, 1, pos - 1) \o SubSeq(seq, pos + 1, Len(seq))

\* What the host writes to stderr for a script error with a message.
ScriptError(message) == <<"execution error: iTerm2 got an error: ">> \o message \o <<" (-2700)", NL>>

\* A run that changes nothing and fails with the text err.
HostFails(err) ==
  [ok |-> FALSE, stdout |-> <<>>, stderr |-> err,
   windows |-> windows, sess |-> sess, nextId |-> nextId]

\* A run that changes nothing and prints out.
HostPrints(out) ==
  [ok |-> TRUE, stdout |-> out \o <<NL>>, stderr |-> <<>>,
   windows |-> windows, sess |-> sess, nextId |-> nextId]

\* The search that settles for the foreground session when the target is
\* not in the walk.
FoundSessionOrFront(prog) ==
  LET all == SessionsOf(windows) IN
  IF prog.target # Undefined /\ \E i \in 1..Len(all) : all[i] = prog.target
    THEN <<prog.target>>
    ELSE IF windows # <<>> THEN <<CurrentSession(windows[1])>> ELSE <<>>

\* The session a targeted script finds: the first of the walk whose unique
\* id is the literal; the foreground session for a script without target.
\* <<>> when there is none.
FoundSession(prog) ==
  IF prog.target # Undefined
    THEN LET all == SessionsOf(windows) IN
         IF \E i \in 1..Len(all) : all[i] = prog.target
           THEN <<all[CHOOSE i \in 1..Len(all) :
                        all[i] = prog.target /\ \A j \in 1..(i - 1) : all[j] # prog.target]>>
           ELSE <<>>
    ELSE IF windows # <<>> THEN <<CurrentSession(windows[1])>> ELSE <<>>

\* The window a tab script works in: the first whose id is the number, the
\* current (front) window for a script without window id.  0 when none.
FoundWindow(prog) ==
  IF prog.window # UndefinedNumber
    THEN IF \E i \in 1..Len(windows) : windows[i].id = prog.window
           THEN CHOOSE i \in 1..Len(windows) :
                  windows[i].id = prog.window /\ \A j \in 1..(i - 1) : windows[j].id # prog.window
           ELSE 0
    ELSE IF windows # <<>> THEN 1 ELSE 0

\* The position a tab script reports one too high.
TabIndexFromOne(tabs, newTab) ==
  IF \E i \in 1..Len(tabs) : tabs[i] = newTab
    THEN CHOOSE i \in 1..Len(tabs) : tabs[i] = newTab /\ \A j \in 1..(i - 1) : tabs[j] # newTab
    ELSE 0

\* set tabIdx to 0; repeat with i from 1 to tabCount: the first tab that is
\* the new tab sets tabIdx to i - 1.
TabIndexOf(tabs, newTab) ==
  IF \E i \in 1..Len(tabs) : tabs[i] = newTab
    THEN (CHOOSE i \in 1..Len(tabs) :
            tabs[i] = newTab /\ \A j \in 1..(i - 1) : tabs[j] # newTab) - 1
    ELSE 0

\* The positions the host may give a new tab of the window a program works in.
TabPositions(prog) ==
  IF prog.kind = "tab" /\ FoundWindow(prog) > 0
    THEN 1..(Len(windows[FoundWindow(prog)].tabs) + 1)
    ELSE {1}

\* The host runs a program: what it prints, whether it fails, and the
\* session tree afterwards.  pos is where the host puts a new tab.
HostRun(prog, pos) ==
  LET profile == IF prog.profile = Undefined THEN DefaultProfile ELSE prog.profile
      found == FoundSession(prog)
      w == FoundWindow(prog)
  IN
  IF prog.kind = "write" THEN
    IF found = <<>>
      THEN HostFails(ScriptError(IF prog.target # Undefined THEN prog.message
                                                             ELSE <<"no front window">>))
      ELSE [HostPrints(<<>>) EXCEPT
              !.stdout = <<>>,
              !.sess = [sess EXCEPT ![found[1]].written = Append(@, prog.code)]]
  ELSE IF prog.kind = "read" THEN
    IF found = <<>>
      THEN HostFails(ScriptError(IF prog.target # Undefined THEN prog.message
                                                             ELSE <<"no front window">>))
      ELSE HostPrints(sess[found[1]].contents)
  ELSE IF prog.kind = "list" THEN
    HostPrints(EncodeSessions(windows, sess, prog.seps[1], prog.seps[2]))
  ELSE IF prog.kind = "window" THEN
    IF profile \notin HostProfiles
      THEN HostFails(ScriptError(<<"no such profile">>))
      ELSE LET windowId == nextId
               sessionId == SessionIdOf(nextId + 1)
           IN [ok |-> TRUE,
               stdout |-> sessionId \o prog.seps[1] \o IntToText(windowId) \o <<NL>>,
               stderr |-> <<>>,
               windows |-> <<[id |-> windowId, tabs |-> <<<<sessionId>>>>, cur |-> 1]>> \o windows,
               sess |-> (sessionId :> NewSession(profile)) @@ sess,
               nextId |-> nextId + 2]
  ELSE IF prog.kind = "tab" THEN
    IF w = 0
      THEN HostFails(ScriptError(IF prog.window # UndefinedNumber THEN prog.message
                                                                  ELSE <<"no current window">>))
    ELSE IF profile \notin HostProfiles
      THEN HostFails(ScriptError(<<"no such profile">>))
    ELSE LET sessionId == SessionIdOf(nextId)
             newTab == <<sessionId>>
             tabs == InsertAt(windows[w].tabs, pos, newTab)
             tabIdx == TabIndexOf(tabs, newTab)
             windowId == IF prog.window # UndefinedNumber THEN prog.echo ELSE windows[w].id
         IN [ok |-> TRUE,
             stdout |-> sessionId \o prog.seps[1] \o IntToText(windowId) \o prog.seps[2]
                          \o IntToText(tabIdx) \o <<NL>>,
             stderr |-> <<>>,
             windows |-> [windows EXCEPT ![w].tabs = tabs, ![w].cur = pos],
             sess |-> (sessionId :> NewSession(profile)) @@ sess,
             nextId |-> nextId + 1]
  ELSE HostFails(<<"syntax error", NL>>)

\* child_process.exec of a command line: osascript compiles the script it
\* is handed and the host runs it.
Exec(command, pos) == HostRun(Compile(command), pos)

\* The message of the error exec rejects with.
ExecError(command, stderr) == <<"Command failed: ">> \o command \o <<NL>> \o stderr

\* ----------------------------------------------------------- the bridge

\* Array.prototype.slice(start): from start to the end, a negative start
\* counted from the end.
Slice(seq, start) ==
  LET from == IF start < 0 THEN (IF Len(seq) + start < 0 THEN 0 ELSE Len(seq) + start)
                           ELSE (IF start > Len(seq) THEN Len(seq) ELSE start)
  IN SubSeq(seq, from + 1, Len(seq))

\* The decoding that takes the tenth field alone for the preview.
DecodeTenFields(parts) ==
  LET preview == IF Len(parts) >= 10 THEN parts[10] ELSE <<>>
      previewLines == Split(preview, NL)
      lastLines == trim(Join(Slice(previewLines, -5), <<NL>>))
  IN [sessionId |-> trim(parts[1]),
      name |-> trim(parts[2]),
      windowName |-> trim(parts[3]),
      windowId |-> parseInt(trim(parts[4])),
      tabIndex |-> parseInt(trim(parts[5])),
      tty |-> trim(parts[6]),
      profile |-> trim(parts[7]),
      isCurrent |-> trim(parts[8]) = <<"true">>,
      isProcessing |-> trim(parts[9]) = <<"true">>,
      preview |-> lastLines]

\* One block of the listing with at least nine fields, decoded.
DecodeBlock(parts) ==
  LET preview == Join(Slice(parts, 9), <<FIELD_SEP>>)
      previewLines == Split(preview, NL)
      lastLines == trim(Join(Slice(previewLines, -5), <<NL>>))
  IN [sessionId |-> trim(parts[1]),
      name |-> trim(parts[2]),
      windowName |-> trim(parts[3]),
      windowId |-> parseInt(trim(parts[4])),
      tabIndex |-> parseInt(trim(parts[5])),
      tty |-> trim(parts[6]),
      profile |-> trim(parts[7]),
      isCurrent |-> trim(parts[8]) = <<"true">>,
      isProcessing |-> trim(parts[9]) = <<"true">>,
      preview |-> lastLines]

RECURSIVE UntilMalformed(_)
\* The blocks before the first one with fewer than nine fields.
UntilMalformed(blocks) ==
  IF blocks = <<>> \/ Len(Split(Head(blocks), FIELD_SEP)) < 9 THEN <<>>
  ELSE <<Head(blocks)>> \o UntilMalformed(Tail(blocks))

\* The decoding that gives up at the first malformed block.
parseUntilMalformed(output) ==
  IF output = <<>> THEN <<>>
  ELSE LET sessionBlocks == SelectSeq(Split(output, RECORD_SEP), LAMBDA b : trim(b) # <<>>)
           wellFormed == UntilMalformed(sessionBlocks)
       IN [i \in 1..Len(wellFormed) |-> DecodeBlock(Split(wellFormed[i], FIELD_SEP))]

\* SessionManager.parseSessionOutput
parseSessionOutput(output) ==
  IF output = <<>> THEN <<>>
  ELSE LET sessionBlocks == SelectSeq(Split(output, RECORD_SEP), LAMBDA b : trim(b) # <<>>)
           wellFormed == SelectSeq(sessionBlocks, LAMBDA b : Len(Split(b, FIELD_SEP)) >= 9)
       IN [i \in 1..Len(wellFormed) |-> DecodeBlock(Split(wellFormed[i], FIELD_SEP))]

NoCreated == [sessionId |-> <<>>, windowId |-> UndefinedNumber, tabIndex |-> UndefinedNumber]

\* The record of an operation before its outcome is known.  at is where a
\* handler that awaits stands: "done" when none does.
Started(op) ==
  [op |-> op, sessionId |-> Undefined, letter |-> <<>>, number |-> UndefinedNumber,
   profile |-> Undefined, ok |-> TRUE, text |-> <<>>, sessions |-> <<>>,
   created |-> NoCreated, error |-> <<>>, command |-> <<>>, at |-> "done"]

Failed(r, message) == [r EXCEPT !.ok = FALSE, !.error = message]

InvalidKey(letter) ==
  <<"Invalid key: ", DQ>> \o letter
    \o <<DQ, ". Use a single letter (A-Z) for control characters, or a special key name (ENTER, ESC, TAB, BACKSPACE, etc.)">>

\* The host takes what a run left behind.
HostBecomes(h) ==
  /\ windows' = h.windows
  /\ sess' = h.sess
  /\ nextId' = h.nextId

\* The send that runs its command again when the first run fails.
SendRetrying(sessionId, letter) ==
  LET r == [Started("send") EXCEPT !.sessionId = sessionId, !.letter = letter]
      key == ResolveKey(letter)
      script == SendScript(sessionId, key.code)
      command == buildOsascriptCommand(script)
      h == Exec(command, 1)
  IN IF ~key.ok
       THEN /\ result' = Failed(r, InvalidKey(letter))
            /\ ascript' = <<>>
            /\ ran' = <<>>
            /\ UNCHANGED <<host, known>>
       ELSE /\ \A id \in DOMAIN h.sess : Len(h.sess[id].written) <= MaxWritten
            /\ result' = IF h.ok THEN r
                         ELSE Failed(r, <<"Failed to send key: ">> \o ExecError(command, h.stderr))
            /\ ascript' = script
            /\ ran' = IF h.ok THEN <<command>> ELSE <<command, command>>
            /\ HostBecomes(h)
            /\ UNCHANGED known

\* SendControlCharacter.send
Send(sessionId, letter) ==
  LET r == [Started("send") EXCEPT !.sessionId = sessionId, !.letter = letter]
      key == ResolveKey(letter)
      script == SendScript(sessionId, key.code)
      command == buildOsascriptCommand(script)
      h == Exec(command, 1)
  IN IF ~key.ok
       THEN /\ result' = Failed(r, InvalidKey(letter))
            /\ ascript' = <<>>
            /\ ran' = <<>>
            /\ UNCHANGED <<host, known>>
       ELSE /\ \A id \in DOMAIN h.sess : Len(h.sess[id].written) <= MaxWritten
            /\ result' = IF h.ok THEN r
                         ELSE Failed(r, <<"Failed to send key: ">> \o ExecError(command, h.stderr))
            /\ ascript' = script
            /\ ran' = <<command>>
            /\ HostBecomes(h)
            /\ UNCHANGED known

\* The outcome of a buffer read by a command line: the trimmed output, or
\* the rejection of exec.
BufferOf(r, command) ==
  LET h == Exec(command, 1)
  IN IF h.ok THEN [r EXCEPT !.text = trim(h.stdout)]
             ELSE Failed(r, ExecError(command, h.stderr))

\* TtyOutputReader.retrieveBuffer
RetrieveBuffer(sessionId) ==
  LET script == RetrieveScript(sessionId)
      command == buildOsascriptCommand(script)
  IN /\ result' = BufferOf([Started("retrieveBuffer") EXCEPT !.sessionId = sessionId], command)
     /\ ascript' = script
     /\ ran' = <<command>>
     /\ UNCHANGED <<host, known>>

\* TtyOutputReader.retrieveBuffer, the older variant
RetrieveBufferOld(sessionId) ==
  LET script == RetrieveScriptOld(sessionId)
      command == RetrieveCommandOld(script)
  IN /\ result' = BufferOf([Started("retrieveBufferOld") EXCEPT !.sessionId = sessionId], command)
     /\ ascript' = script
     /\ ran' = <<command>>
     /\ UNCHANGED <<host, known>>

\* !linesOfOutput
NoLineCount(linesOfOutput) == linesOfOutput = UndefinedNumber \/ linesOfOutput = 0

\* lines.slice(-linesOfOutput).join('\n')
LastLines(buffer, linesOfOutput) ==
  Join(Slice(Split(buffer, NL), 0 - linesOfOutput), <<NL>>)

\* lines.slice(-linesOfOutput - 1).join('\n')
LastLinesOld(buffer, linesOfOutput) ==
  Join(Slice(Split(buffer, NL), 0 - linesOfOutput - 1), <<NL>>)

\* TtyOutputReader.call
Call(linesOfOutput, sessionId) ==
  LET script == RetrieveScript(sessionId)
      command == buildOsascriptCommand(script)
      r == BufferOf([Started("call") EXCEPT !.sessionId = sessionId,
                                            !.number = linesOfOutput], command)
  IN /\ result' = IF ~r.ok \/ NoLineCount(linesOfOutput) THEN r
                  ELSE [r EXCEPT !.text = LastLines(r.text, linesOfOutput)]
     /\ ascript' = script
     /\ ran' = <<command>>
     /\ UNCHANGED <<host, known>>

\* TtyOutputReader.call, the older variant
CallOld(linesOfOutput, sessionId) ==
  LET script == RetrieveScriptOld(sessionId)
      command == RetrieveCommandOld(script)
      r == BufferOf([Started("callOld") EXCEPT !.sessionId = sessionId,
                                               !.number = linesOfOutput], command)
  IN /\ result' = IF ~r.ok \/ NoLineCount(linesOfOutput) THEN r
                  ELSE [r EXCEPT !.text = LastLinesOld(r.text, linesOfOutput)]
     /\ ascript' = script
     /\ ran' = <<command>>
     /\ UNCHANGED <<host, known>>

\* The outcome of SessionManager.listSessions on a run of its command.
Listing(r, command, h) ==
  IF h.ok THEN [r EXCEPT !.sessions = parseSessionOutput(trim(h.stdout))]
          ELSE Failed(r, <<"Failed to list sessions: ">> \o ExecError(command, h.stderr))

SessionIds(sessions) == {sessions[i].sessionId : i \in 1..Len(sessions)}

\* SessionManager.listSessions
ListSessions ==
  LET command == ListCommand(ListScript)
      r == Listing(Started("listSessions"), command, Exec(command, 1))
  IN /\ result' = r
     /\ ascript' = ListScript
     /\ ran' = <<command>>
     /\ known' = known \cup SessionIds(r.sessions)
     /\ UNCHANGED host

\* The message that leaves the available sessions out.
NotFoundBare(sessionId, sessions) ==
  <<"Session not found: ">> \o sessionId \o <<". Available sessions: ">>

\* The message of getSession for an id that is not listed.
NotFound(sessionId, sessions) ==
  <<"Session not found: ">> \o sessionId \o <<". Available sessions: ">>
    \o Join([i \in 1..Len(sessions) |-> sessions[i].sessionId], <<",", SP>>)

\* SessionManager.getSession
GetSession(sessionId) ==
  LET command == ListCommand(ListScript)
      l == Listing([Started("getSession") EXCEPT !.sessionId = sessionId],
                   command, Exec(command, 1))
      hit == SelectSeq(l.sessions, LAMBDA x : x.sessionId = sessionId)
  IN /\ result' = IF ~l.ok THEN l
                  ELSE IF hit = <<>> THEN Failed([l EXCEPT !.sessions = <<>>],
                                                 NotFound(sessionId, l.sessions))
                  ELSE [l EXCEPT !.sessions = <<Head(hit)>>]
     /\ ascript' = ListScript
     /\ ran' = <<command>>
     /\ known' = known \cup SessionIds(l.sessions)
     /\ UNCHANGED host

\* What reading .trim() of a missing array element throws.
TypeError == <<"Cannot read properties of undefined (reading 'trim')">>

\* The outcome of createWindow on a run of its command.
WindowResult(r, command, h) ==
  LET parts == Split(trim(h.stdout), SEP)
  IN IF ~h.ok
       THEN Failed(r, <<"Failed to create window: ">> \o ExecError(command, h.stderr))
     ELSE IF Len(parts) < 2
       THEN Failed(r, <<"Failed to create window: ">> \o TypeError)
     ELSE [r EXCEPT !.created =
             [NoCreated EXCEPT !.sessionId = trim(parts[1]),
                               !.windowId = parseInt(trim(parts[2]))]]

\* The outcome of createTab on a run of its command.
TabResult(r, command, h) ==
  LET parts == Split(trim(h.stdout), SEP)
  IN IF ~h.ok
       THEN Failed(r, <<"Failed to create tab: ">> \o ExecError(command, h.stderr))
     ELSE IF Len(parts) < 3
       THEN Failed(r, <<"Failed to create tab: ">> \o TypeError)
     ELSE [r EXCEPT !.created =
             [sessionId |-> trim(parts[1]),
              windowId |-> parseInt(trim(parts[2])),
              tabIndex |-> parseInt(trim(parts[3]))]]

\* WindowTabManager.createWindow
CreateWindow(profile) ==
  LET script == CreateWindowScript(profile)
      command == buildOsascriptCommand(script)
      h == Exec(command, 1)
      r == [Started("createWindow") EXCEPT !.profile = profile]
  IN /\ result' = WindowResult(r, command, h)
     /\ ascript' = script
     /\ ran' = <<command>>
     /\ HostBecomes(h)
     /\ UNCHANGED known

\* WindowTabManager.createTab
CreateTab(windowId, profile) ==
  LET script == CreateTabScript(windowId, profile)
      command == buildOsascriptCommand(script)
      r == [Started("createTab") EXCEPT !.number = windowId, !.profile = profile]
  IN \E pos \in TabPositions(Compile(command)) :
       LET h == Exec(command, pos)
       IN /\ result' = TabResult(r, command, h)
          /\ ascript' = script
          /\ ran' = <<command>>
          /\ HostBecomes(h)
          /\ UNCHANGED known

\* listSessions when the subprocess prints out.
ListSessionsOn(out) ==
  LET command == ListCommand(ListScript)
      r == Listing(Started("listSessions"), command, HostPrints(out))
  IN /\ result' = r
     /\ ascript' = ListScript
     /\ ran' = <<command>>
     /\ known' = known \cup SessionIds(r.sessions)
     /\ UNCHANGED host

\* createWindow when the subprocess prints out.
CreateWindowOn(profile, out) ==
  LET script == CreateWindowScript(profile)
      command == buildOsascriptCommand(script)
  IN /\ result' = WindowResult([Started("createWindow") EXCEPT !.profile = profile],
                               command, HostPrints(out))
     /\ ascript' = script
     /\ ran' = <<command>>
     /\ UNCHANGED <<host, known>>

\* createTab when the subprocess prints out.
CreateTabOn(windowId, profile, out) ==
  LET script == CreateTabScript(windowId, profile)
      command == buildOsascriptCommand(script)
  IN /\ result' = TabResult([Started("createTab") EXCEPT !.number = windowId,
                                                         !.profile = profile],
                            command, HostPrints(out))
     /\ ascript' = script
     /\ ran' = <<command>>
     /\ UNCHANGED <<host, known>>

\* escapeForAppleScriptString applied to a text, and the literal made of it.
Escape(str) ==
  /\ result' = [Started("escape") EXCEPT !.sessionId = str,
                                         !.text = escapeForAppleScriptString(str)]
  /\ ascript' = <<DQ>> \o escapeForAppleScriptString(str) \o <<DQ>>
  /\ ran' = <<>>
  /\ UNCHANGED <<host, known>>

\* buildOsascriptCommand applied to a script.
BuildCommand(script) ==
  /\ result' = Started("buildOsascriptCommand")
  /\ ascript' = script
  /\ ran' = <<buildOsascriptCommand(script)>>
  /\ UNCHANGED <<host, known>>

\* The command line of listSessions made for a script.
BuildListCommand(script) ==
  /\ result' = Started("listCommand")
  /\ ascript' = script
  /\ ran' = <<ListCommand(script)>>
  /\ UNCHANGED <<host, known>>

\* -- the dispatcher: write_to_terminal

\* The text of the error response for a request without session_id.
SessionRequired ==
  <<"Error: session_id is required. Please call list_sessions first to get available session IDs.">>

\* The command line CommandExecutor runs to type a command into a session.
ExecutorCommand(sessionId, command) ==
  <<"osascript -e ", SQ, "write text ">> \o command \o <<" to session ">> \o sessionId \o <<SQ>>

\* buffer.split("\n").length
LineCount(buffer) == Len(Split(buffer, NL))

\* The handler that goes on to the foreground session without a session_id.
WriteStartAnyTarget(session_id, command) ==
  LET sessionId == IF Truthy(session_id) THEN session_id ELSE Undefined
      r == [Started("write_to_terminal") EXCEPT !.sessionId = session_id, !.command = command]
      read == buildOsascriptCommand(RetrieveScript(sessionId))
      before == BufferOf(r, read)
  IN /\ result' = IF ~before.ok THEN before
                  ELSE [before EXCEPT !.at = "read", !.number = LineCount(before.text)]
     /\ ascript' = RetrieveScript(sessionId)
     /\ ran' = <<read>>
     /\ UNCHANGED <<host, known>>

\* The handler of write_to_terminal up to its first await: the check of
\* session_id and the read of the buffer before the command.
WriteStart(session_id, command) ==
  LET r == [Started("write_to_terminal") EXCEPT !.sessionId = session_id, !.command = command]
      read == buildOsascriptCommand(RetrieveScript(session_id))
      before == BufferOf(r, read)
  IN IF ~Truthy(session_id)
       THEN /\ result' = Failed(r, SessionRequired)
            /\ ascript' = <<>>
            /\ ran' = <<>>
            /\ UNCHANGED <<host, known>>
       ELSE /\ result' = IF ~before.ok THEN before
                         ELSE [before EXCEPT !.at = "read", !.number = LineCount(before.text)]
            /\ ascript' = RetrieveScript(session_id)
            /\ ran' = <<read>>
            /\ UNCHANGED <<host, known>>

\* The handler resumes after the first read: executor.executeCommand.  A
\* session the host has gets the command typed, and the host echoes it or
\* not; without the session the executor fails.
WriteSend ==
  LET id == result.sessionId
      typed == ExecutorCommand(id, result.command)
  IN /\ result.at = "read"
     /\ ran' = Append(ran, typed)
     /\ IF id \in DOMAIN sess
          THEN /\ result' = [result EXCEPT !.at = "sent"]
               /\ \E echo \in BOOLEAN :
                    sess' = IF echo
                              THEN [sess EXCEPT ![id].contents = @ \o <<NL>> \o result.command]
                              ELSE sess
          ELSE /\ result' = Failed([result EXCEPT !.at = "done"],
                                   ExecError(typed, ScriptError(<<K_ERR_FOUND>> \o id)))
               /\ sess' = sess
     /\ UNCHANGED <<windows, nextId, ascript, known>>

\* The handler resumes after the command: the read of the buffer after it,
\* and the response with the number of new lines.
WriteFinish ==
  LET read == buildOsascriptCommand(RetrieveScript(result.sessionId))
      after == BufferOf(result, read)
  IN /\ result.at = "sent"
     /\ result' = IF ~after.ok THEN [after EXCEPT !.at = "done"]
                  ELSE [after EXCEPT !.at = "done",
                                     !.number = LineCount(after.text) - result.number]
     /\ ran' = Append(ran, read)
     /\ UNCHANGED <<host, ascript, known>>

\* ------------------------------------------------- what the host does alone

\* The windows without the session id: an emptied tab goes, and so does an
\* emptied window.
WithoutSession(ws, id) ==
  LET strip(w) ==
        LET tabs == SelectSeq([t \in 1..Len(w.tabs) |->
                                 SelectSeq(w.tabs[t], LAMBDA x : x # id)],
                              LAMBDA t : t # <<>>)
        IN [w EXCEPT !.tabs = tabs,
                     !.cur = IF w.cur > Len(tabs) THEN (IF tabs = <<>> THEN 1 ELSE Len(tabs))
                                                  ELSE w.cur]
  IN SelectSeq([i \in 1..Len(ws) |-> strip(ws[i])], LAMBDA w : w.tabs # <<>>)

\* The user or the shell closes a session.
HostClose(id) ==
  /\ id \in DOMAIN sess
  /\ windows' = WithoutSession(windows, id)
  /\ sess' = [x \in (DOMAIN sess) \ {id} |-> sess[x]]
  /\ UNCHANGED <<nextId, result, ascript, ran, known>>

\* ---------------------------------------------------------- specifications

InitBridge ==
  /\ result = Started("none")
  /\ ascript = <<>>
  /\ ran = <<>>
  /\ known = {}

\* The bridge has not run an operation yet.
FirstOp == result.op = "none"

\* iTerm2 runs with one window of one session.
InitHost ==
  /\ windows = <<[id |-> 1, tabs |-> <<<<SessionIdOf(2)>>>>, cur |-> 1]>>
  /\ sess = (SessionIdOf(2) :> [NewSession(DefaultProfile) EXCEPT !.contents = <<"a">>])
  /\ nextId = 3

\* iTerm2 runs with a front window of two tabs and a second window.
InitSessions ==
  /\ windows = <<[id |-> 1, tabs |-> <<<<SessionIdOf(2)>>, <<SessionIdOf(3)>>>>, cur |-> 1],
                 [id |-> 4, tabs |-> <<<<SessionIdOf(5)>>>>, cur |-> 1]>>
  /\ sess = (SessionIdOf(2) :> [NewSession(DefaultProfile) EXCEPT !.contents = <<"a">>])
         @@ (SessionIdOf(3) :> [NewSession(DefaultProfile) EXCEPT !.contents = <<"b">>])
         @@ (SessionIdOf(5) :> [NewSession(<<"s">>) EXCEPT !.contents = <<"c">>])
  /\ nextId = 6

\* -- Spec: operations on sessions while the host closes sessions.

\* The session identifiers a caller passes: absent, the ones it has learnt
\* from a listing, and one no session ever had.
Stranger == SessionIdOf(9)
Targets == known \cup {Undefined, Stranger}
SomeKeys == {<<"C">>}

Init == InitSessions /\ InitBridge

Next ==
  \/ \E sessionId \in Targets, letter \in SomeKeys : Send(sessionId, letter)
  \/ \E sessionId \in Targets : RetrieveBuffer(sessionId)
  \/ \E sessionId \in Targets : RetrieveBufferOld(sessionId)
  \/ ListSessions
  \/ \E sessionId \in known \cup {Stranger} : GetSession(sessionId)
  \/ \E id \in DOMAIN sess : HostClose(id)

Spec == Init /\ [][Next]_vars

\* -- SpecKey: every key input, as the first operation of the bridge.

\* The case variants of a key name: as given, upper, lower, capitalised and
\* with the capitals on the even places.
LowerOfChar(c) ==
  IF IndexOf(UpperLetters, c) > 0 THEN LowerLetters[IndexOf(UpperLetters, c)] ELSE c

CaseVariants(name) ==
  {name,
   [i \in 1..Len(name) |-> LowerOfChar(name[i])],
   [i \in 1..Len(name) |-> IF i = 1 THEN name[i] ELSE LowerOfChar(name[i])],
   [i \in 1..Len(name) |-> IF i % 2 = 0 THEN name[i] ELSE LowerOfChar(name[i])]}

KeyInputs ==
  UNION {CaseVariants(name) : name \in DOMAIN SPECIAL_KEYS}
  \cup {<<UpperLetters[i]>> : i \in 1..26}
  \cup {<<LowerLetters[i]>> : i \in 1..26}
  \cup {<<>>, <<"1","2","3">>, <<"A","B">>, <<"1">>, <<"[">>, <<"]","]">>, <<"@">>,
        <<SP,"E","N","T","E","R">>, <<"E","N","T","E","R",NL>>, <<"C",NL>>,
        <<"E","N","T","E">>, <<"C","T","R","L">>,
        <<DotlessI>>, <<LongS>>, <<SharpS>>, <<"e",LongS,"c">>, <<"b",LongS>>,
        <<"d","e","l","e","t","e","d">>}

InitKey == InitHost /\ InitBridge

NextKey ==
  \E sessionId \in {Undefined, SessionIdOf(2)}, letter \in KeyInputs :
    FirstOp /\ Send(sessionId, letter)

SpecKey == InitKey /\ [][NextKey]_vars

\* -- SpecScript: every caller-supplied identifier and profile name, as the
\* first operation of the bridge.

IdChars == {"s", "2", DQ, BSL}

RECURSIVE TextsUpTo(_, _)
\* The texts over the characters chars of length at most n.
TextsUpTo(chars, n) ==
  IF n = 0 THEN {<<>>}
  ELSE LET shorter == TextsUpTo(chars, n - 1)
       IN shorter \cup {Append(t, c) : t \in shorter, c \in chars}

CallerTexts == TextsUpTo(IdChars, MaxIdLen) \cup {Undefined}

InitScript == InitHost /\ InitBridge

NextScript ==
  \/ \E sessionId \in CallerTexts : FirstOp /\ Send(sessionId, <<"C">>)
  \/ \E sessionId \in CallerTexts : FirstOp /\ RetrieveBuffer(sessionId)
  \/ \E sessionId \in CallerTexts : FirstOp /\ RetrieveBufferOld(sessionId)
  \/ \E profile \in CallerTexts : FirstOp /\ CreateWindow(profile)
  \/ \E windowId \in {UndefinedNumber, 1}, profile \in CallerTexts :
       FirstOp /\ CreateTab(windowId, profile)

SpecScript == InitScript /\ [][NextScript]_vars

\* -- SpecRead: every buffer and every line count.

Buffers == TextsUpTo({"a", NL}, MaxBufLen)
LineCounts == {UndefinedNumber} \cup 0..MaxLines

InitRead ==
  /\ windows = <<[id |-> 1, tabs |-> <<<<SessionIdOf(2)>>>>, cur |-> 1]>>
  /\ \E buffer \in Buffers :
       sess = (SessionIdOf(2) :> [NewSession(DefaultProfile) EXCEPT !.contents = buffer])
  /\ nextId = 3
  /\ InitBridge

NextRead ==
  \/ \E n \in LineCounts, sessionId \in {Undefined, SessionIdOf(2)} : Call(n, sessionId)
  \/ \E n \in LineCounts, sessionId \in {Undefined, SessionIdOf(2)} : CallOld(n, sessionId)

SpecRead == InitRead /\ [][NextRead]_vars

\* -- SpecCreate: a window or a tab is created in every session tree of one
\* or two windows, as the first operation of the bridge.

\* The profiles a caller names: none, one the host has and one it has not.
SomeProfiles == {Undefined, <<"s">>, <<"x">>}

\* The id of the second window, past the sessions of the first.
SecondWindow == MaxTabs + 2

\* The window ids a caller passes: none, the first window, the second, and
\* the id of no window.
SomeWindows == {UndefinedNumber, 1, SecondWindow, 0}

\* A window of n tabs of one session each, numbered after the window.
BuildWindow(id, n, cur) ==
  [id |-> id, tabs |-> [t \in 1..n |-> <<SessionIdOf(id + t)>>], cur |-> cur]

InitCreate ==
  /\ \E a \in 1..MaxTabs, b \in 0..MaxTabs, front \in BOOLEAN :
       \E curA \in 1..a, curB \in 1..(IF b = 0 THEN 1 ELSE b) :
         LET first == BuildWindow(1, a, curA)
             second == BuildWindow(SecondWindow, b, curB)
         IN /\ windows = IF b = 0 THEN <<first>>
                         ELSE IF front THEN <<first, second>> ELSE <<second, first>>
            /\ sess = [id \in {SessionIdOf(1 + t) : t \in 1..a}
                               \cup {SessionIdOf(SecondWindow + t) : t \in 1..b}
                          |-> NewSession(DefaultProfile)]
  /\ nextId = 2 * MaxTabs + 3
  /\ InitBridge

NextCreate ==
  \/ \E profile \in SomeProfiles : FirstOp /\ CreateWindow(profile)
  \/ \E windowId \in SomeWindows, profile \in SomeProfiles :
       FirstOp /\ CreateTab(windowId, profile)

SpecCreate == InitCreate /\ [][NextCreate]_vars

\* -- SpecWire: a listing of every session tree of two sessions, as the first
\* operation of the bridge.

RECURSIVE LinesOf(_)
\* n lines of text.
LinesOf(n) ==
  IF n = 0 THEN <<>> ELSE IF n = 1 THEN <<"b">> ELSE <<"a", NL>> \o LinesOf(n - 1)

WireNames == {<<"z">>, <<"z", SP>>, <<"z", FIELD_SEP, "z">>, <<RECORD_SEP>>}

WireContents ==
  {LinesOf(n) : n \in 0..MaxPreviewLines}
    \cup {<<"a", FIELD_SEP, "b">>, <<"a", RECORD_SEP, "b">>, <<SP, "a", NL>>,
          <<"a", NL, NL, "b", FIELD_SEP, NL, "c", NL, "d", NL, "e", NL, "f", FIELD_SEP>>}

InitWire ==
  /\ \E cur \in 1..2 :
       windows = <<[id |-> 1, tabs |-> <<<<SessionIdOf(2)>>, <<SessionIdOf(3)>>>>, cur |-> cur]>>
  /\ \E name2 \in WireNames, contents2 \in WireContents, proc2 \in BOOLEAN,
        name3 \in {<<"z">>, <<SP, "y">>}, contents3 \in {<<>>, <<"c">>} :
       sess = (SessionIdOf(2) :> [NewSession(DefaultProfile) EXCEPT
                                    !.name = name2, !.contents = contents2, !.proc = proc2])
           @@ (SessionIdOf(3) :> [NewSession(<<"s">>) EXCEPT
                                    !.name = name3, !.contents = contents3])
  /\ nextId = 4
  /\ InitBridge

NextWire == FirstOp /\ ListSessions

SpecWire == InitWire /\ [][NextWire]_vars

\* -- SpecDecode: the operations that decode, on every output of the
\* subprocess, as the first operation of the bridge.

\* The texts between the separators of a creation output.
CreatedParts == {<<>>, <<"s", "7">>, <<"s", "8">>, <<"7">>, <<"8">>, <<"x">>, <<SP>>}

RECURSIVE PartsUpTo(_)
\* The sequences of at most n such texts, at least one.
PartsUpTo(n) ==
  IF n = 1 THEN {<<p>> : p \in CreatedParts}
  ELSE PartsUpTo(n - 1) \cup {Append(ps, p) : ps \in PartsUpTo(n - 1), p \in CreatedParts}

CreatedOutputs == {Join(ps, <<SEP>>) : ps \in PartsUpTo(MaxParts)}

\* A block of k fields: the first is id, the fourth and fifth are number,
\* the others are z.
BlockOf(k, id, number) ==
  Join([i \in 1..k |-> IF i = 1 THEN id ELSE IF i \in {4, 5} THEN number ELSE <<"z">>],
       <<FIELD_SEP>>)

\* Listing outputs: such a block alone, or after a block of a session.
ListedOutputs ==
  {before \o BlockOf(k, id, number) \o <<RECORD_SEP>> :
     k \in 0..MaxFields, id \in {<<>>, <<"s">>, <<"t">>, <<SP>>},
     number \in {<<"1">>, <<"2">>, <<"x">>, <<>>},
     before \in {<<>>, BlockOf(10, <<"s", "2">>, <<"1">>) \o <<RECORD_SEP>>}}

InitDecode == InitHost /\ InitBridge

NextDecode ==
  \/ \E out \in ListedOutputs : FirstOp /\ ListSessionsOn(out)
  \/ \E out \in CreatedOutputs : FirstOp /\ CreateWindowOn(Undefined, out)
  \/ \E out \in CreatedOutputs : FirstOp /\ CreateTabOn(1, Undefined, out)

SpecDecode == InitDecode /\ [][NextDecode]_vars

\* -- SpecEscape: the escaping functions on every short text.

EscapedChars == {"a", "n", DQ, BSL, SQ}
EscapedTexts == TextsUpTo(EscapedChars, MaxIdLen)

InitEscape == InitHost /\ InitBridge

NextEscape ==
  \/ \E str \in EscapedTexts : FirstOp /\ Escape(str)
  \/ \E script \in EscapedTexts : FirstOp /\ BuildCommand(script)
  \/ \E script \in EscapedTexts : FirstOp /\ BuildListCommand(script)

SpecEscape == InitEscape /\ [][NextEscape]_vars

\* -- SpecSend: every key to a session of either window, to the foreground
\* and to no session, as the first operation of the bridge.

SendTargets == {Undefined, SessionIdOf(3), SessionIdOf(5), Stranger}

InitSend == InitSessions /\ InitBridge

NextSend ==
  \E sessionId \in SendTargets, letter \in KeyInputs : FirstOp /\ Send(sessionId, letter)

SpecSend == InitSend /\ [][NextSend]_vars

\* -- SpecWrite: one request of write_to_terminal while the host closes
\* sessions.

RequestIds == {Undefined, <<>>, SessionIdOf(2), SessionIdOf(5), Stranger}
RequestCommands == {<<"l", "s">>, <<"p", "w", "d", NL, "l", "s">>}

InitWrite == InitSessions /\ InitBridge

NextWrite ==
  \/ \E session_id \in RequestIds, command \in RequestCommands :
       FirstOp /\ WriteStart(session_id, command)
  \/ WriteSend
  \/ WriteFinish
  \/ \E id \in DOMAIN sess : HostClose(id)

SpecWrite == InitWrite /\ [][NextWrite]_vars

\* ------------------------------------------------------------------ claims

\* The last operation built a script for the session identifier it was given.
BuiltForIdentifier ==
  /\ result.op \in {"send", "retrieveBuffer", "retrieveBufferOld"}
  /\ Truthy(result.sessionId)
  /\ ascript # <<>>

\* C1: whatever the session identifier (quotes and backslashes included),
\* the script that send and retrieveBuffer (either variant) build compiles to
\* the code of the targeted script, and its literals are the application
\* name, the identifier itself and the not-found message with the
\* identifier: the identifier never closes a literal.
C1_IdentifierStaysInLiterals ==
  BuiltForIdentifier =>
    LET lx == Lex(ascript) IN
      /\ lx.ok
      /\ CodeFrom(lx.toks, 1) \in {WRITE_TARGET, READ_TARGET}
      /\ StrsOf(lx.toks) =
           <<AppName, result.sessionId, <<K_ERR_FOUND>> \o result.sessionId>>

\* The last operation built a script for the profile name it was given.
BuiltForProfile ==
  /\ result.op \in {"createWindow", "createTab"}
  /\ Truthy(result.profile)

\* C2: whatever the profile name (quotes and backslashes included), the
\* script that createWindow and createTab build compiles to the code of a
\* creation under a named profile, and the profile literal is the profile
\* name itself: the name never closes its literal.
C2_ProfileStaysInLiteral ==
  BuiltForProfile =>
    LET lx == Lex(ascript)
        code == CodeFrom(lx.toks, 1)
        strs == StrsOf(lx.toks)
    IN /\ lx.ok
       /\ code \in {WINDOW_PROFILE, TAB_TARGET_PROFILE, TAB_CURRENT_PROFILE}
       /\ strs[IF code = TAB_TARGET_PROFILE THEN 3 ELSE 2] = result.profile

\* ASCII upper case, letter by letter.
AsciiUpper(s) ==
  [i \in 1..Len(s) |->
     IF IndexOf(LowerLetters, s[i]) > 0 THEN UpperLetters[IndexOf(LowerLetters, s[i])]
                                        ELSE s[i]]

\* The documented table of key names.
DocumentedKeys ==
  {<<<<"E","N","T","E","R">>, 13>>, <<<<"R","E","T","U","R","N">>, 13>>, <<<<"C","R">>, 13>>,
   <<<<"L","F">>, 10>>, <<<<"N","E","W","L","I","N","E">>, 10>>,
   <<<<"E","S","C">>, 27>>, <<<<"E","S","C","A","P","E">>, 27>>,
   <<<<"T","A","B">>, 9>>,
   <<<<"B","A","C","K","S","P","A","C","E">>, 127>>, <<<<"D","E","L","E","T","E">>, 127>>,
   <<<<"D","E","L">>, 127>>,
   <<<<"B","S">>, 8>>, <<<<"S","P","A","C","E">>, 32>>, <<<<"]">>, 29>>}

\* A single ASCII letter, either case.
IsAsciiLetter(s) == Len(s) = 1 /\ IndexOf(UpperLetters, AsciiUpper(s)[1]) > 0

\* The documented code of an input, 0 when the input is not documented.
DocumentedCode(letter) ==
  IF \E k \in DocumentedKeys : k[1] = AsciiUpper(letter)
    THEN (CHOOSE k \in DocumentedKeys : k[1] = AsciiUpper(letter))[2]
  ELSE IF IsAsciiLetter(letter) THEN IndexOf(UpperLetters, AsciiUpper(letter)[1])
  ELSE 0

\* The session the last send addressed in the host as it is now.
SendTarget ==
  IF Truthy(result.sessionId) THEN result.sessionId ELSE CurrentSession(windows[1])

\* C3: a send of a documented key name or of a single letter, in any letter
\* case, is accepted, the one number in the code of its script is the
\* documented code, and that is the character the host writes.
C3_KeysResolveAsDocumented ==
  (result.op = "send" /\ DocumentedCode(result.letter) # 0) =>
    /\ result.ok
    /\ NumsFrom(Lex(ascript).toks, 1, <<>>) = <<DocumentedCode(result.letter)>>
    /\ Compile(ran[1]).code = DocumentedCode(result.letter)
    /\ sess[SendTarget].written = <<DocumentedCode(result.letter)>>

\* C3 witness: a mixed-case Enter was sent as character 13.
C3_Witness ==
  /\ result.op = "send"
  /\ result.letter = <<"E","n","t","e","r">>
  /\ result.ok
  /\ sess[SendTarget].written = <<13>>

\* C4: a send of anything else is rejected with 'Invalid key' before a
\* script is built or a subprocess run, and an accepted send runs one command
\* with one code.
C4_OthersAreRejected ==
  result.op = "send" =>
    IF DocumentedCode(result.letter) = 0
      THEN /\ ~result.ok
           /\ Head(result.error) = "Invalid key: "
           /\ ascript = <<>>
           /\ ran = <<>>
      ELSE /\ Len(ran) = 1
           /\ Len(NumsFrom(Lex(ascript).toks, 1, <<>>)) = 1

\* The last N lines of a buffer, the whole buffer when it has no more.
ExpectedLines(buffer, n) ==
  LET lines == Split(buffer, NL)
  IN IF n >= Len(lines) THEN buffer
     ELSE Join(SubSeq(lines, Len(lines) - n + 1, Len(lines)), <<NL>>)

\* C5: a read returns the last N lines of the trimmed buffer for N >= 1 (the
\* whole buffer when N exceeds its lines), and the whole buffer for a line
\* count of zero or none, in either variant of the reader.
C5_ReadReturnsLastLines ==
  (result.op \in {"call", "callOld"} /\ result.ok) =>
    LET buffer == trim(sess[SessionIdOf(2)].contents)
    IN result.text = IF result.number >= 1 THEN ExpectedLines(buffer, result.number)
                                           ELSE buffer

\* A text without either separator of the listing.
SepFree(text) == \A i \in 1..Len(text) : text[i] \notin {FIELD_SEP, RECORD_SEP}

\* A text the wire carries as it is: no separator in it, no white space
\* around it.
Plain(text) == SepFree(text) /\ trim(text) = text

\* The last five lines of a preview, trimmed.
LastFiveLines(preview) ==
  LET lines == Split(preview, NL)
  IN trim(Join(SubSeq(lines, IF Len(lines) > 5 THEN Len(lines) - 4 ELSE 1, Len(lines)),
               <<NL>>))

\* The record of a session of the host as it is now.
RecordOf(w, tIndex, id) ==
  [sessionId |-> id,
   name |-> sess[id].name,
   windowName |-> sess[CurrentSession(w)].name,
   windowId |-> w.id,
   tabIndex |-> tIndex - 1,
   tty |-> sess[id].tty,
   profile |-> sess[id].profile,
   isCurrent |-> id = CurrentSession(windows[1]),
   isProcessing |-> sess[id].proc,
   preview |-> LastFiveLines(PreviewText(sess[id].contents))]

\* The records of the sessions of the host, in the order of the walk.
HostRecords ==
  Flatten([i \in 1..Len(windows) |->
    Flatten([t \in 1..Len(windows[i].tabs) |->
      [k \in 1..Len(windows[i].tabs[t]) |->
         RecordOf(windows[i], t, windows[i].tabs[t][k])]])])

\* The listing was taken of the host as it is now.
Listed == result.op = "listSessions" /\ result.ok

PlainHost ==
  \A id \in DOMAIN sess :
    /\ Plain(sess[id].name) /\ Plain(sess[id].tty) /\ Plain(sess[id].profile)
    /\ \A i \in 1..Len(sess[id].contents) : sess[id].contents[i] # RECORD_SEP

WireOutput == trim(EncodeSessions(windows, sess, <<FIELD_SEP>>, <<RECORD_SEP>>) \o <<NL>>)

\* A block of the output that is not blank and has fewer than nine fields.
Malformed(block) == trim(block) # <<>> /\ Len(Split(block, FIELD_SEP)) < 9

\* The output without its malformed blocks.
WithoutMalformed(output) ==
  Join(SelectSeq(Split(output, RECORD_SEP), LAMBDA b : ~Malformed(b)), <<RECORD_SEP>>)

\* C7: a listing whose output has malformed blocks succeeds with the records
\* the output without those blocks decodes to.
C7_MalformedBlocksAreSkipped ==
  (result.op = "listSessions") =>
    /\ result.ok
    /\ result.sessions = parseSessionOutput(WithoutMalformed(WireOutput))

\* C7 witness: the output had a malformed block before a well-formed one, and
\* the record of the latter was decoded.
C7_Witness ==
  LET blocks == Split(WireOutput, RECORD_SEP)
  IN /\ Listed
     /\ \E i, j \in 1..Len(blocks) : i < j /\ Malformed(blocks[i]) /\ ~Malformed(blocks[j])
                                          /\ trim(blocks[j]) # <<>>
     /\ \E i \in 1..Len(result.sessions) : result.sessions[i].sessionId = SessionIdOf(3)

\* The text sub occurs in the text.
Contains(text, sub) ==
  \E i \in 0..(Len(text) - Len(sub)) : SubSeq(text, i + 1, i + Len(sub)) = sub

\* The step is one of the bridge: the host closed no session in it.
BridgeStep == DOMAIN sess \subseteq DOMAIN sess'

\* The sessions the host has, as a set.
Live == {SessionsOf(windows)[i] : i \in 1..Len(SessionsOf(windows))}

\* C8: getSession of an id the host lists returns the one record of that id;
\* of an id it does not list, it fails with a message that names the id and
\* every id of the listing.  It never returns the record of another id.
C8_GetSessionFindsOrNames ==
  [][(BridgeStep /\ result'.op = "getSession") =>
       LET id == result'.sessionId IN
       IF id \in Live
         THEN /\ result'.ok
              /\ Len(result'.sessions) = 1
              /\ result'.sessions[1].sessionId = id
              /\ result'.sessions[1].preview = sess[id].contents
         ELSE /\ ~result'.ok
              /\ result'.sessions = <<>>
              /\ Contains(result'.error, <<"Session not found: ">> \o id)
              /\ \A x \in Live : Contains(result'.error, x)]_vars

\* C8 witness: getSession of a session the caller had learnt of and the host
\* has closed failed while two sessions were listed.
C8_Witness ==
  /\ result.op = "getSession"
  /\ ~result.ok
  /\ result.sessionId \in known
  /\ Contains(result.error, <<",", SP>>)

\* What exec rejects with when the script raises its not-found error.
NotFoundByScript(id) == ExecError(ran'[1], ScriptError(<<K_ERR_FOUND>> \o id))

\* C9: a send or a buffer read (either variant) for an id that no session of
\* the host has (a closed session or an id that never was) fails with the
\* not-found error of the script, writes to no session, reads none and leaves
\* the host as it was.
C9_AbsentTargetFails ==
  [][(/\ BridgeStep
      /\ result'.op \in {"send", "retrieveBuffer", "retrieveBufferOld"}
      /\ Truthy(result'.sessionId)
      /\ result'.sessionId \notin Live
      /\ ran' # <<>>) =>
       /\ ~result'.ok
       /\ result'.text = <<>>
       /\ result'.error = IF result'.op = "send"
                            THEN <<"Failed to send key: ">> \o NotFoundByScript(result'.sessionId)
                            ELSE NotFoundByScript(result'.sessionId)
       /\ UNCHANGED host]_vars

\* C9 witness: a send to a session the caller had learnt of failed after the
\* host closed the session, and sessions remain.
C9_Witness ==
  /\ result.op = "send"
  /\ ~result.ok
  /\ ran # <<>>
  /\ result.sessionId \in known
  /\ result.sessionId \notin DOMAIN sess
  /\ DOMAIN sess # {}

\* The places of the windows with an id.
WindowsWithId(ws, id) == {i \in 1..Len(ws) : ws[i].id = id}

C11_SendRunsOnce ==
  [][(BridgeStep /\ result'.op = "send" /\ ran' # <<>>) =>
       LET h == Exec(ran'[1], 1) IN
         /\ Len(ran') = 1
         /\ ran'[1] = buildOsascriptCommand(ascript')
         /\ windows' = h.windows /\ sess' = h.sess
         /\ result'.ok = h.ok
         /\ ~h.ok => /\ result'.error = <<"Failed to send key: ">> \o ExecError(ran'[1], h.stderr)
                     /\ UNCHANGED host]_vars

\* C11 witness: a send to the foreground failed once after the host closed
\* its last session.
C11_Witness ==
  /\ result.op = "send"
  /\ result.sessionId = Undefined
  /\ ~result.ok
  /\ Len(ran) = 1
  /\ Head(result.error) = "Failed to send key: "
  /\ windows = <<>>

\* A record of a session with all its fields: an id and two numbers.
WellTyped(rec) == rec.sessionId # <<>> /\ rec.windowId \in Nat /\ rec.tabIndex \in Nat

\* C12, as stated: whatever the subprocess prints, a listing or a creation
\* either fails with the error of its operation, or returns records and ids
\* that are complete: a session id that is not empty, and natural numbers for
\* the window id and the tab index it returns.
C12_ResultsAreWellTyped ==
  /\ result.op = "listSessions" =>
       IF result.ok THEN \A i \in 1..Len(result.sessions) : WellTyped(result.sessions[i])
                    ELSE Head(result.error) = "Failed to list sessions: "
  /\ result.op = "createWindow" =>
       IF result.ok THEN /\ result.created.sessionId # <<>>
                         /\ result.created.windowId \in Nat
                    ELSE Head(result.error) = "Failed to create window: "
  /\ result.op = "createTab" =>
       IF result.ok THEN WellTyped(result.created)
                    ELSE Head(result.error) = "Failed to create tab: "

\* C13, as stated: whatever the subprocess prints, no record of the listing
\* has an empty sessionId.
C13_SessionIdNeverEmpty ==
  result.op = "listSessions" =>
    \A i \in 1..Len(result.sessions) : result.sessions[i].sessionId # <<>>

RECURSIVE BackslashesBefore(_, _)
\* The number of backslashes that end just before place i of a text.
BackslashesBefore(s, i) ==
  IF i > 1 /\ s[i - 1] = BSL THEN 1 + BackslashesBefore(s, i - 1) ELSE 0

\* A text with each backslash doubled and a backslash before each double
\* quote, character by character.
EscapedByChar(s) ==
  Flatten([i \in 1..Len(s) |-> IF s[i] = BSL THEN <<BSL, BSL>>
                               ELSE IF s[i] = DQ THEN <<BSL, DQ>>
                               ELSE <<s[i]>>])

\* C14: the escaped text is the text with every backslash doubled and every
\* double quote behind one backslash; it has no double quote behind an even
\* number of backslashes; and between double quotes it is read as one string
\* literal whose value is the text.
C14_EscapedLiteralReadsBack ==
  result.op = "escape" =>
    /\ result.text = EscapedByChar(result.sessionId)
    /\ \A i \in 1..Len(result.text) :
         result.text[i] = DQ => BackslashesBefore(result.text, i) % 2 = 1
    /\ BackslashesBefore(result.text, Len(result.text) + 1) % 2 = 0
    /\ Lex(ascript).ok
    /\ StrsOf(Lex(ascript).toks) = <<result.sessionId>>
    /\ CodeFrom(Lex(ascript).toks, 1) = <<HOLE>>

\* C14 witness: a text of a backslash before a double quote was escaped.
C14_Witness ==
  /\ result.op = "escape"
  /\ result.sessionId = <<"a", BSL, DQ>>
  /\ result.text = <<"a", BSL, BSL, BSL, DQ>>

\* C15: the shell reads the command line built for a script, by
\* buildOsascriptCommand or by listSessions, as osascript -e and one argument
\* that is the script, whatever single quotes the script holds.
C15_ShellReadsTheScript ==
  result.op \in {"buildOsascriptCommand", "listCommand"} =>
    /\ Len(ran) = 1
    /\ ShellScript(ran[1]) = [ok |-> TRUE, word |-> ascript]

\* C15 witness: a command line was built for a script of three single quotes.
C15_Witness ==
  /\ result.op = "buildOsascriptCommand"
  /\ ascript = <<SQ, SQ, SQ>>
  /\ ShellScript(ran[1]).word = ascript

\* C16: a send that runs its script addresses the session of the given id, or
\* the current session of the front window when no id is given.  When the
\* host has that session the send succeeds, its script is the write of one
\* character with newline NO, the host appends the resolved code to what was
\* written to that session, and every other session and every window is as
\* it was.  When it has not, the send fails with the script's 'Session not
\* found' error and nothing is written.
C16_SendWritesOneCharacter ==
  [][(BridgeStep /\ result'.op = "send" /\ ran' # <<>>) =>
       LET id == result'.sessionId
           target == IF Truthy(id) THEN id ELSE CurrentSession(windows[1])
           code == ResolveKey(result'.letter).code
           lx == Lex(ascript')
       IN IF target \in Live
            THEN /\ result'.ok
                 /\ lx.ok
                 /\ CodeFrom(lx.toks, 1) = IF Truthy(id) THEN WRITE_TARGET ELSE WRITE_FRONT
                 /\ NumsFrom(lx.toks, 1, <<>>) = <<code>>
                 /\ sess' = [sess EXCEPT ![target].written = Append(@, code)]
                 /\ windows' = windows
            ELSE /\ ~result'.ok
                 /\ Contains(result'.error, ScriptError(<<K_ERR_FOUND>> \o id))
                 /\ UNCHANGED host]_vars

\* C16 witness: ESC was sent to the session of the second window, and to no
\* other.
C16_Witness ==
  /\ result.op = "send"
  /\ result.ok
  /\ result.sessionId = SessionIdOf(5)
  /\ sess[SessionIdOf(5)].written = <<27>>
  /\ \A id \in DOMAIN sess : id # SessionIdOf(5) => sess[id].written = <<>>

\* The command lines of a whole write_to_terminal for a session: the read,
\* the command, the read.
WriteRuns(id, command) ==
  <<buildOsascriptCommand(RetrieveScript(id)),
    ExecutorCommand(id, command),
    buildOsascriptCommand(RetrieveScript(id))>>

\* C17: a write_to_terminal without session_id, or with an empty one, is
\* answered with the session_id-required error and has run no command.  With
\* a session_id, what it has run is a beginning of: the read of the buffer of
\* that session, the command to that session, the read of the buffer of that
\* session; it is all three when the request is answered without error.
C17_WriteNeedsSessionAndReadsAround ==
  result.op = "write_to_terminal" =>
    IF ~Truthy(result.sessionId)
      THEN /\ ~result.ok
           /\ result.error = SessionRequired
           /\ result.at = "done"
           /\ ran = <<>>
      ELSE /\ Len(ran) \in 1..3
           /\ ran = SubSeq(WriteRuns(result.sessionId, result.command), 1, Len(ran))
           /\ (result.at = "done" /\ result.ok) => Len(ran) = 3
           /\ result.at = "read" => Len(ran) = 1
           /\ result.at = "sent" => Len(ran) = 2

\* C17 witness: a command was written to the session of the second window
\* between two reads, and the host echoed its two lines.
C17_Witness ==
  /\ result.op = "write_to_terminal"
  /\ result.at = "done"
  /\ result.ok
  /\ result.sessionId = SessionIdOf(5)
  /\ Len(ran) = 3
  /\ result.number = 2
====
